---- MODULE Spec2Model ----
(***************************************************************************)
(* The job lease lifecycle of the pdf-merge worker:                        *)
(*   utils/dependencies.py  GracefulShutdownHandler (the coordinator)      *)
(*   vq/jobs_manager.py     JobsSystemHeartbeat (the renewer thread) and   *)
(*                          JobsSystemManager (registration, get_job)      *)
(*   run_job.py             run_with_jobs_system (the job loop) and the    *)
(*                          interrupt handler installed by run_cloud       *)
(*                                                                         *)
(* Three execution contexts are modelled: the main thread (job loop and    *)
(* the body of get_job), the renewer threads (one per heartbeat object),   *)
(* and the signal handler, which CPython runs on the main thread between   *)
(* two of its bytecodes: while the handler is active the main thread makes *)
(* no step, the renewer threads do.                                        *)
(***************************************************************************)
EXTENDS Integers, Sequences, FiniteSets, TLC

\* ------------------------------------------------------------------ bounds
MaxClaims == 1         \* claims the queue service grants in one run
MaxSignals == 1        \* host interrupts delivered in one run
MaxCalls == 3          \* coordinator calls in one sequential scenario (SpecSeq)
MaxTicks == 6          \* heartbeats of the renewer whose outcomes are recorded
MaxJobs == 5           \* claims the queue service grants in one run of SpecLoop

\* ------------------------------------------------------- program constants
HeartbeatErrorLimit == 5    \* jobs_manager.py:169
LoopErrorLimit == 5         \* run_job.py:130 and run_job.py:140

\* Reason (dependencies.py:6-8); "None" is the Python None of line 14.
Reasons == {"SYS_INTERRUPT", "JOB_CANCELLED"}
NoReason == "None"

\* The two signals run_cloud installs the handler for (run_job.py:164-165).
Signals == {"SIGINT", "SIGTERM"}
\* run_job.py:161: f"interrupted by host with {name} ({signum})"
InterruptMessage(sig) == IF sig = "SIGINT" THEN "interrupted by host with SIGINT (2)"
                         ELSE "interrupted by host with SIGTERM (15)"
\* jobs_manager.py:148
CancelMessage == "cancelled by jobs system"

Claims == 1..MaxClaims
NoClaim == 0
\* the claims of the runs of SpecLoop
LoopClaims == 1..MaxJobs

VARIABLES
    shutdown_handler, \* GracefulShutdownHandler: [event, reason, message]
    hpc,              \* position of the signal handler inside shutdown()
    hsig,             \* the signal the active handler was called with
    nSignals,         \* host interrupts delivered so far
    pc,               \* position of the main thread
    continuous,       \* run_job.py:73, CONTINUOUS
    error_count,      \* run_job.py:76
    registered,       \* __enter__ has registered the worker
    heartbeat,        \* JobsSystemManager.heartbeat: NoClaim (None) or the claim of the object
    cur,              \* task_uuid/claim_uuid locals of the running get_job generator
    error,            \* the local `error` of get_job (line 290)
    returning,        \* the with-body left through `return` (lines 112, 128, 132)
    nextClaim,        \* the next claim the queue service will grant
    hb,               \* the JobsSystemHeartbeat objects and their threads, by claim
    sess,             \* what the latest lease session did, until the next get_job
    calls,            \* complete/return calls issued, in order
    nDeactivate,      \* deactivate calls issued
    seqCalls,         \* SpecSeq: the shutdown() calls made since the last reset()
    seqResets,        \* SpecSeq: the reset() calls made
    recording,        \* the histories this run keeps: a subset of Histories
    ticks,            \* history "ticks": the outcomes of the renewer's heartbeats
    waited,           \* SpecRenewer: how the owner's last wait_to_finish() ended
    iters             \* history "iterations": the job loop's failing streaks

vars == <<shutdown_handler, hpc, hsig, nSignals, pc, continuous, error_count,
          registered, heartbeat, cur, error, returning, nextClaim, hb, sess,
          calls, nDeactivate, seqCalls, seqResets, recording, ticks, waited, iters>>

handlerVars == <<hpc, hsig, nSignals>>
scenVars == <<seqCalls, seqResets, recording, ticks, waited, iters>>
mainVars == <<pc, continuous, error_count, registered, heartbeat, cur, error,
              returning, nextClaim, sess, calls, nDeactivate>>

\* ------------------------------------------------ GracefulShutdownHandler
\* __init__ (dependencies.py:12-15)
NewShutdownHandler == [event |-> FALSE, reason |-> NoReason, message |-> ""]

\* the property `interrupted` (dependencies.py:17-19)
Interrupted(sh) == sh.event

\* line 22 without its early return: the last caller wins
AlreadyShutDown_Never(sh) == FALSE

\* shutdown(), line 22: the early return of an already shut down handler
AlreadyShutDown(sh) == sh.reason # NoReason

\* shutdown(), lines 29, 30, 31: three separate statements
SetEvent(sh) == [sh EXCEPT !.event = TRUE]
SetReason(sh, r) == [sh EXCEPT !.reason = r]
SetMessage(sh, m) == [sh EXCEPT !.message = m]

\* reset(), lines 34, 35, 36: three separate statements
ClearEvent(sh) == [sh EXCEPT !.event = FALSE]
ClearReason(sh) == [sh EXCEPT !.reason = NoReason]
ClearMessage(sh) == [sh EXCEPT !.message = ""]

\* shutdown() run from its first to its last statement with nothing in between
ShutdownCall(sh, r, m) ==
    IF AlreadyShutDown(sh) THEN sh
    ELSE SetMessage(SetReason(SetEvent(sh), r), m)

\* reset() without its line 35: the reason survives
ResetCall_KeepsReason(sh) == ClearMessage(ClearEvent(sh))

\* reset() run from its first to its last statement with nothing in between
ResetCall(sh) == ClearMessage(ClearReason(ClearEvent(sh)))

\* ---------------------------------------------------- JobsSystemHeartbeat
\* An object is [stop, running] plus its thread: tpc is the thread's position,
\* ec the local error_count of _loop (line 155), kept at 0 wherever the loop
\* is about to overwrite it or has ended.
\* __init__ (jobs_manager.py:130-132), before start()
NewHeartbeat == [stop |-> FALSE, running |-> FALSE, tpc |-> "unborn", ec |-> 0]

\* start() (lines 174-177): the thread begins in time.sleep of line 157
StartHeartbeat(h) == [h EXCEPT !.tpc = "sleep", !.running = TRUE]

\* stop() (lines 179-180)
StopHeartbeat(h) == [h EXCEPT !.stop = TRUE]

\* Thread.is_alive() of the object's thread (line 186)
ThreadAlive(h) == h.tpc \notin {"unborn", "returned", "raised"}

\* the statuses the extension endpoint answers with (lines 145-152), or a failure
HeartbeatOutcomes == {"in progress", "cancelled", "paused", "error"}

\* lines 158-160 left out: the loop goes on to the next heartbeat
LoopStopped_KeepsBeating(h) == [h EXCEPT !.tpc = "post"]

\* _loop, lines 158-160: the loop sees _stop and returns
LoopStopped(h) == [h EXCEPT !.running = FALSE, !.tpc = "returned", !.ec = 0]

\* _loop, lines 165-172: a failed heartbeat
HeartbeatFailed(h) ==
    IF h.ec + 1 >= HeartbeatErrorLimit
    THEN [h EXCEPT !.ec = 0, !.running = FALSE, !.tpc = "raised"]
    ELSE [h EXCEPT !.ec = h.ec + 1, !.tpc = "sleep"]

\* line 164 left out: a heartbeat that returns keeps the count
HeartbeatSucceeded_KeepsCount(h) == [h EXCEPT !.tpc = "sleep"]

\* _loop, line 164: _heartbeat returned
HeartbeatSucceeded(h) == [h EXCEPT !.ec = 0, !.tpc = "sleep"]

\* lines 183-184 left out: the join of a thread nobody asked to stop expires
WaitToFinishOutcomes_NoStopCheck(h) ==
    IF ~ThreadAlive(h) THEN {"ok"}
    ELSE IF h.tpc = "post" \/ ~h.stop THEN {"TimeoutError"}
    ELSE {}

\* wait_to_finish (lines 182-189): what the call can do in the object's state.
\* join(timeout) outlasts a thread that sleeps or runs shutdown(); only a thread
\* blocked in requests.post (line 142, no timeout) can be alive when it expires.
WaitToFinishOutcomes(h) ==
    IF ~h.stop THEN {"ValueError"}
    ELSE IF ~ThreadAlive(h) THEN {"ok"}
    ELSE IF h.tpc = "post" THEN {"TimeoutError"}
    ELSE {}

\* ------------------------------------------------------ JobsSystemManager
\* __job_complete (lines 323-329): the claim is in the URL, there is no body
JobCompleteCall(c) == [op |-> "complete", claim |-> c, body |-> ""]

\* __job_failed (lines 331-338): `err` is logged (line 332) and is no part of
\* the request, which has the claim in the URL and no body
JobFailedCall(c, err) == [op |-> "return", claim |-> c, body |-> ""]

\* get_job, line 303: a signaled session notifies the queue unless the job
\* was cancelled
NotifiesWhenSignaled(r) == r # "JOB_CANCELLED"

\* lines 304-312 with the `elif` of line 309 written `if`: the interrupted
\* session falls through to the complete call
DispositionInterrupted_FallsThrough(c, m) ==
    <<[op |-> "return", claim |-> c, body |-> ""],
      [op |-> "complete", claim |-> c, body |-> ""]>>

\* get_job, lines 304-306: the call of a signaled, not cancelled session
DispositionInterrupted(c, m) == <<JobFailedCall(c, m)>>

\* lines 309-312 with the test of line 309 inverted
DispositionUnsignaled_Inverted(c, err) ==
    IF err = "None" THEN <<[op |-> "return", claim |-> c, body |-> ""]>>
    ELSE <<[op |-> "complete", claim |-> c, body |-> ""]>>

\* get_job, lines 309-312: the call of a session that read `interrupted` False
DispositionUnsignaled(c, err) ==
    IF err # "None" THEN <<JobFailedCall(c, err)>> ELSE <<JobCompleteCall(c)>>

\* get_job, lines 294-300: `error` is set only by an exception that leaves the
\* with-body
ErrorAfterYield(propagated) ==
    IF propagated THEN "run_job.py line 115: Exception('work failed')" ELSE "None"

\* run_job.py:121: the job loop catches every Exception of run_job inside the
\* with-body, so none of them leaves it
BodyPropagates(outcome) == FALSE

\* run_job.py:135-147: the loop's handling of an exception that left the with
\* statement: the counter, and where the loop goes
CountAfterException(n) == IF n >= LoopErrorLimit THEN n ELSE n + 1
\* run_job.py:146-147 left out after the handler of lines 135-144: the loop
\* of a non-continuous worker goes round again
PcAfterException_IgnoresMode(n, cont) ==
    IF n >= LoopErrorLimit THEN "exit" ELSE "loop_top"

PcAfterException(n, cont) ==
    IF n >= LoopErrorLimit THEN "exit"
    ELSE IF ~cont THEN "exit" ELSE "loop_top"

\* run_job.py:146-149 with the `return` of the body leaving the process at
\* once, as if the manager were not used in a with statement
PcAfterWith_SkipsExit(ret, cont) == IF ret \/ ~cont THEN "done" ELSE "loop_top"

\* run_job.py:146-149 after a with statement that ended normally; a pending
\* `return` of the body takes effect first
PcAfterWith(ret, cont) == IF ret \/ ~cont THEN "exit" ELSE "loop_top"

\* the test of line 251 left out
HeartbeatAttached_Never(h) == FALSE

\* get_job, line 251: a heartbeat object is still attached to the manager
HeartbeatAttached(h) == h # NoClaim

\* the `return` of run_job.py:112 replaced by `continue`
PcAfterNoJob_AlwaysContinues(cont) == "loop_top"

\* run_job.py:105-112: no job; `continue` in continuous mode (after the sleep
\* of line 108), `return` otherwise
PcAfterNoJob(cont) == IF cont THEN "loop_top" ELSE "exit"

\* the complete/return calls issued for claim c
CallsFor(c) == SelectSeq(calls, LAMBDA x : x.claim = c)

\* The latest lease session: its claim, how far it got, how run_job ended,
\* what line 302 read, the message of a host interrupt that took effect on an
\* unsignaled handler during run_job, whether the renewer's shutdown() passed
\* line 22 on an unsignaled handler, whether the renewer proved faulty.
NewSession == [claim |-> NoClaim, state |-> "none", work |-> "none", seen |-> "none",
               sysint |-> "", cancelTook |-> FALSE, fault |-> FALSE]

\* ------------------------------------------------------------- histories
\* A run may keep histories of what happened, for the properties that speak
\* of the past: "ticks", the outcome of every heartbeat of the renewer, and
\* "iterations", the lengths of the job loop's current streaks of failing
\* iterations and of failing polls. `recording` is fixed at the start of a run.
Histories == {"ticks", "iterations"}

NewIterations == [failing |-> 0, pollFailing |-> 0]

\* the history "ticks" after a heartbeat that ended with `status`
TicksAfter(status) ==
    IF "ticks" \in recording THEN Append(ticks, status) ELSE ticks

\* the history "iterations" after a step of the job loop: for the iteration
\* and for the poll, "failed" lengthens the streak, "fine" ends it, "same"
\* leaves it
StreakAfter(n, outcome) ==
    IF outcome = "failed" THEN n + 1 ELSE IF outcome = "fine" THEN 0 ELSE n
IterationsAfter(iteration, poll) ==
    IF "iterations" \in recording
    THEN [failing |-> StreakAfter(iters.failing, iteration),
          pollFailing |-> StreakAfter(iters.pollFailing, poll)]
    ELSE iters

\* ----------------------------------------------------------------- Init
\* the state after construction, but for the heartbeat objects and the
\* histories kept
Start ==
    /\ shutdown_handler = NewShutdownHandler
    /\ hpc = "idle"
    /\ hsig = "none"
    /\ nSignals = 0
    /\ pc = "enter"
    /\ continuous \in BOOLEAN
    /\ error_count = 0
    /\ registered = FALSE
    /\ heartbeat = NoClaim
    /\ cur = NoClaim
    /\ error = "None"
    /\ returning = FALSE
    /\ nextClaim = 1
    /\ sess = NewSession
    /\ calls = <<>>
    /\ nDeactivate = 0
    /\ seqCalls = <<>>
    /\ seqResets = 0
    /\ ticks = <<>>
    /\ waited = "none"
    /\ iters = NewIterations

Init ==
    /\ Start
    /\ hb = [c \in Claims |-> NewHeartbeat]
    /\ recording = {}

\* ------------------------------------------------- the interrupt handler
\* The handler `interrupt` of run_cloud (run_job.py:156-162) calls
\* shutdown(SYS_INTERRUPT, message); it runs on the main thread.
MainRuns == hpc = "idle"
ProcessAlive == pc \notin {"done", "crashed"}

\* a signal is delivered: the handler is entered (run_job.py:156-158)
Interrupt(sig) ==
    /\ hpc = "idle"
    /\ ProcessAlive
    /\ nSignals < MaxSignals
    /\ hpc' = "check"
    /\ hsig' = sig
    /\ nSignals' = nSignals + 1
    /\ UNCHANGED <<shutdown_handler, hb, mainVars, scenVars>>

\* shutdown(), lines 22-26, in the handler
HandlerCheck ==
    /\ hpc = "check"
    /\ hpc' = IF AlreadyShutDown(shutdown_handler) THEN "idle" ELSE "set_event"
    /\ hsig' = IF AlreadyShutDown(shutdown_handler) THEN "none" ELSE hsig
    /\ sess' = IF /\ ~AlreadyShutDown(shutdown_handler)
                  /\ ~Interrupted(shutdown_handler)
                  /\ pc = "working"
               THEN [sess EXCEPT !.sysint = InterruptMessage(hsig)]
               ELSE sess
    /\ UNCHANGED <<shutdown_handler, nSignals, hb, pc, continuous, error_count,
                   registered, heartbeat, cur, error, returning, nextClaim, calls,
                   nDeactivate, scenVars>>

\* shutdown(), line 29, in the handler
HandlerSetEvent ==
    /\ hpc = "set_event"
    /\ shutdown_handler' = SetEvent(shutdown_handler)
    /\ hpc' = "set_reason"
    /\ UNCHANGED <<hsig, nSignals, hb, mainVars, scenVars>>

\* shutdown(), line 30, in the handler
HandlerSetReason ==
    /\ hpc = "set_reason"
    /\ shutdown_handler' = SetReason(shutdown_handler, "SYS_INTERRUPT")
    /\ hpc' = "set_message"
    /\ UNCHANGED <<hsig, nSignals, hb, mainVars, scenVars>>

\* shutdown(), line 31, in the handler; the handler returns
HandlerSetMessage ==
    /\ hpc = "set_message"
    /\ shutdown_handler' = SetMessage(shutdown_handler, InterruptMessage(hsig))
    /\ hpc' = "idle"
    /\ hsig' = "none"
    /\ UNCHANGED <<nSignals, hb, mainVars, scenVars>>

\* ---------------------------------------------------- the renewer thread
\* _loop, lines 157-163: the sleep ends; a stopped loop returns, a running
\* one posts the extension call of _heartbeat (line 142)
HeartbeatTick(c) ==
    /\ hb[c].tpc = "sleep"
    /\ hb' = [hb EXCEPT ![c] = IF hb[c].stop THEN LoopStopped(@)
                               ELSE [@ EXCEPT !.tpc = "post"]]
    /\ UNCHANGED <<shutdown_handler, handlerVars, mainVars, scenVars>>

\* _heartbeat, lines 142-152, and _loop, lines 164-172: the answer arrives
HeartbeatResponse(c, status) ==
    /\ hb[c].tpc = "post"
    /\ Len(ticks) < MaxTicks
    /\ hb' = [hb EXCEPT ![c] =
                IF status = "error" THEN HeartbeatFailed(@)
                ELSE IF status = "cancelled" THEN [@ EXCEPT !.tpc = "sd_check", !.ec = 0]
                ELSE HeartbeatSucceeded(@)]
    /\ ticks' = TicksAfter(status)
    /\ UNCHANGED <<shutdown_handler, handlerVars, mainVars, seqCalls, seqResets,
                   recording, waited, iters>>

\* shutdown(), lines 22-26, in the renewer thread (called at line 147)
RenewerCheck(c) ==
    /\ hb[c].tpc = "sd_check"
    /\ hb' = [hb EXCEPT ![c].tpc = IF AlreadyShutDown(shutdown_handler)
                                   THEN "self_stop" ELSE "sd_event"]
    /\ sess' = IF /\ ~AlreadyShutDown(shutdown_handler)
                  /\ ~Interrupted(shutdown_handler)
                  /\ c = cur
               THEN [sess EXCEPT !.cancelTook = TRUE]
               ELSE sess
    /\ UNCHANGED <<shutdown_handler, handlerVars, pc, continuous, error_count,
                   registered, heartbeat, cur, error, returning, nextClaim, calls,
                   nDeactivate, scenVars>>

\* shutdown(), line 29, in the renewer thread
RenewerSetEvent(c) ==
    /\ hb[c].tpc = "sd_event"
    /\ shutdown_handler' = SetEvent(shutdown_handler)
    /\ hb' = [hb EXCEPT ![c].tpc = "sd_reason"]
    /\ UNCHANGED <<handlerVars, mainVars, scenVars>>

\* shutdown(), line 30, in the renewer thread
RenewerSetReason(c) ==
    /\ hb[c].tpc = "sd_reason"
    /\ shutdown_handler' = SetReason(shutdown_handler, "JOB_CANCELLED")
    /\ hb' = [hb EXCEPT ![c].tpc = "sd_message"]
    /\ UNCHANGED <<handlerVars, mainVars, scenVars>>

\* shutdown(), line 31, in the renewer thread
RenewerSetMessage(c) ==
    /\ hb[c].tpc = "sd_message"
    /\ shutdown_handler' = SetMessage(shutdown_handler, CancelMessage)
    /\ hb' = [hb EXCEPT ![c].tpc = "self_stop"]
    /\ UNCHANGED <<handlerVars, mainVars, scenVars>>

\* _heartbeat, line 150 (self.stop()), then _loop, line 164
RenewerSelfStop(c) ==
    /\ hb[c].tpc = "self_stop"
    /\ hb' = [hb EXCEPT ![c] = HeartbeatSucceeded(StopHeartbeat(@))]
    /\ UNCHANGED <<shutdown_handler, handlerVars, mainVars, scenVars>>

\* -------------------------------------- the main thread: run_with_jobs_system
mainRest == <<handlerVars, scenVars>>
\* the same for the steps that end an iteration or a poll
iterRest == <<handlerVars, seqCalls, seqResets, recording, ticks, waited>>

\* __enter__ (jobs_manager.py:209-212): registration, which may raise
RegisterWorker(ok) ==
    /\ MainRuns /\ pc = "enter"
    /\ registered' = ok
    /\ pc' = IF ok THEN "loop_top" ELSE "crashed"
    /\ UNCHANGED <<shutdown_handler, hb, continuous, error_count, heartbeat, cur,
                   error, returning, nextClaim, sess, calls, nDeactivate, mainRest>>

\* run_job.py:93
LoopCheckInterrupted ==
    /\ MainRuns /\ pc = "loop_top"
    /\ pc' = IF Interrupted(shutdown_handler) THEN "loop_reason" ELSE "get_job"
    /\ UNCHANGED <<shutdown_handler, hb, continuous, error_count, registered,
                   heartbeat, cur, error, returning, nextClaim, sess, calls,
                   nDeactivate, mainRest>>

\* line 94 without its test of the reason: a continuous worker resets
\* whatever was signaled
LoopReturnsOnSignal_ModeOnly(cont, r) == ~cont

\* run_job.py:94: the signaled loop returns unless a continuous worker's job
\* was cancelled
LoopReturnsOnSignal(cont, r) == ~cont \/ r # "JOB_CANCELLED"

\* run_job.py:94-95
LoopCheckReason ==
    /\ MainRuns /\ pc = "loop_reason"
    /\ pc' = IF LoopReturnsOnSignal(continuous, shutdown_handler.reason)
             THEN "exit" ELSE "reset_event"
    /\ UNCHANGED <<shutdown_handler, hb, continuous, error_count, registered,
                   heartbeat, cur, error, returning, nextClaim, sess, calls,
                   nDeactivate, mainRest>>

\* run_job.py:98 -> reset(), dependencies.py:34
ResetClearEvent ==
    /\ MainRuns /\ pc = "reset_event"
    /\ shutdown_handler' = ClearEvent(shutdown_handler)
    /\ pc' = "reset_reason"
    /\ UNCHANGED <<hb, continuous, error_count, registered, heartbeat, cur, error,
                   returning, nextClaim, sess, calls, nDeactivate, mainRest>>

\* reset(), dependencies.py:35
ResetClearReason ==
    /\ MainRuns /\ pc = "reset_reason"
    /\ shutdown_handler' = ClearReason(shutdown_handler)
    /\ pc' = "reset_message"
    /\ UNCHANGED <<hb, continuous, error_count, registered, heartbeat, cur, error,
                   returning, nextClaim, sess, calls, nDeactivate, mainRest>>

\* reset(), dependencies.py:36
ResetClearMessage ==
    /\ MainRuns /\ pc = "reset_message"
    /\ shutdown_handler' = ClearMessage(shutdown_handler)
    /\ pc' = "get_job"
    /\ UNCHANGED <<hb, continuous, error_count, registered, heartbeat, cur, error,
                   returning, nextClaim, sess, calls, nDeactivate, mainRest>>

\* get_job, lines 251-252: a heartbeat object is still attached; the
\* ValueError reaches run_job.py:135-147
GetJobUsageError ==
    /\ MainRuns /\ pc = "get_job"
    /\ HeartbeatAttached(heartbeat)
    /\ error_count' = CountAfterException(error_count)
    /\ pc' = PcAfterException(error_count, continuous)
    /\ sess' = NewSession
    /\ iters' = IterationsAfter("failed", "same")
    /\ UNCHANGED <<shutdown_handler, hb, continuous, registered, heartbeat, cur,
                   error, returning, nextClaim, calls, nDeactivate, iterRest>>

\* get_job, lines 255-261: the poll fails; run_job.py:135-147
GetJobPollFails ==
    /\ MainRuns /\ pc = "get_job"
    /\ ~HeartbeatAttached(heartbeat)
    /\ error_count' = CountAfterException(error_count)
    /\ pc' = PcAfterException(error_count, continuous)
    /\ sess' = NewSession
    /\ iters' = IterationsAfter("failed", "failed")
    /\ UNCHANGED <<shutdown_handler, hb, continuous, registered, heartbeat, cur,
                   error, returning, nextClaim, calls, nDeactivate, iterRest>>

\* get_job, lines 255-266: the poll answers 204; run_job.py:103-112
GetJobNoJob ==
    /\ MainRuns /\ pc = "get_job"
    /\ ~HeartbeatAttached(heartbeat)
    /\ error_count' = 0
    /\ pc' = PcAfterNoJob(continuous)
    /\ sess' = [NewSession EXCEPT !.state = "nojob"]
    /\ iters' = IterationsAfter("fine", "fine")
    /\ UNCHANGED <<shutdown_handler, hb, continuous, registered, heartbeat, cur,
                   error, returning, nextClaim, calls, nDeactivate, iterRest>>

\* get_job, lines 255-293: the poll grants a claim, the heartbeat object is
\* made and started, the job is yielded; run_job.py:103 and the call of
\* run_job at line 115
GetJobGranted ==
    /\ MainRuns /\ pc = "get_job"
    /\ ~HeartbeatAttached(heartbeat)
    /\ nextClaim \in DOMAIN hb
    /\ heartbeat' = nextClaim
    /\ cur' = nextClaim
    /\ nextClaim' = nextClaim + 1
    /\ hb' = [hb EXCEPT ![nextClaim] = StartHeartbeat(NewHeartbeat)]
    /\ sess' = [NewSession EXCEPT !.claim = nextClaim, !.state = "open"]
    /\ error' = "None"
    /\ error_count' = 0
    /\ pc' = "working"
    /\ iters' = IterationsAfter("same", "fine")
    /\ UNCHANGED <<shutdown_handler, continuous, registered, returning, calls,
                   nDeactivate, iterRest>>

\* run_job returns; the with-body ends and get_job resumes after its yield
WorkReturns ==
    /\ MainRuns /\ pc = "working"
    /\ sess' = [sess EXCEPT !.work = "returned"]
    /\ error' = ErrorAfterYield(BodyPropagates("returned"))
    /\ pc' = "disp_int"
    /\ iters' = IterationsAfter("fine", "same")
    /\ UNCHANGED <<shutdown_handler, hb, continuous, error_count, registered,
                   heartbeat, cur, returning, nextClaim, calls, nDeactivate, iterRest>>

\* run_job raises: run_job.py:121-134, then get_job resumes after its yield
WorkRaises ==
    /\ MainRuns /\ pc = "working"
    /\ sess' = [sess EXCEPT !.work = "raised"]
    /\ IF ~continuous \/ error_count >= LoopErrorLimit
       THEN returning' = TRUE /\ UNCHANGED error_count
       ELSE error_count' = error_count + 1 /\ UNCHANGED returning
    /\ error' = ErrorAfterYield(BodyPropagates("raised"))
    /\ pc' = "disp_int"
    /\ iters' = IterationsAfter("failed", "same")
    /\ UNCHANGED <<shutdown_handler, hb, continuous, registered, heartbeat, cur,
                   nextClaim, calls, nDeactivate, iterRest>>

\* get_job, line 302 reads `interrupted` True
DispSignaled ==
    /\ MainRuns /\ pc = "disp_int"
    /\ Interrupted(shutdown_handler)
    /\ sess' = [sess EXCEPT !.seen = "signaled"]
    /\ pc' = "disp_reason"
    /\ UNCHANGED <<shutdown_handler, hb, continuous, error_count, registered,
                   heartbeat, cur, error, returning, nextClaim, calls, nDeactivate,
                   mainRest>>

\* get_job, line 302 reads `interrupted` False, then lines 309-312: the return
\* or complete call. A failed call raises out of the finally block (lines
\* 329, 338) and reaches run_job.py:135-147.
DispUnsignaled(ok) ==
    /\ MainRuns /\ pc = "disp_int"
    /\ ~Interrupted(shutdown_handler)
    /\ calls' = calls \o DispositionUnsignaled(cur, error)
    /\ IF ok
       THEN /\ sess' = [sess EXCEPT !.seen = "unsignaled", !.state = "resolved"]
            /\ pc' = "hb_stop"
            /\ UNCHANGED <<error_count, returning, cur>>
       ELSE /\ sess' = [sess EXCEPT !.seen = "unsignaled", !.state = "ended"]
            /\ error_count' = CountAfterException(error_count)
            /\ pc' = PcAfterException(error_count, continuous)
            /\ returning' = FALSE
            /\ cur' = NoClaim
    /\ UNCHANGED <<shutdown_handler, hb, continuous, registered, heartbeat, error,
                   nextClaim, nDeactivate, mainRest>>

\* get_job, lines 303 and 307-308
DispCheckReason ==
    /\ MainRuns /\ pc = "disp_reason"
    /\ IF NotifiesWhenSignaled(shutdown_handler.reason)
       THEN pc' = "disp_return" /\ UNCHANGED sess
       ELSE pc' = "hb_stop" /\ sess' = [sess EXCEPT !.state = "resolved"]
    /\ UNCHANGED <<shutdown_handler, hb, continuous, error_count, registered,
                   heartbeat, cur, error, returning, nextClaim, calls, nDeactivate,
                   mainRest>>

\* get_job, lines 304-306: the return call with the handler's message. A
\* failed call raises out of the finally block (line 338) and reaches
\* run_job.py:135-147.
DispReturnInterrupted(ok) ==
    /\ MainRuns /\ pc = "disp_return"
    /\ calls' = calls \o DispositionInterrupted(cur, shutdown_handler.message)
    /\ IF ok
       THEN /\ sess' = [sess EXCEPT !.state = "resolved"]
            /\ pc' = "hb_stop"
            /\ UNCHANGED <<error_count, returning, cur>>
       ELSE /\ sess' = [sess EXCEPT !.state = "ended"]
            /\ error_count' = CountAfterException(error_count)
            /\ pc' = PcAfterException(error_count, continuous)
            /\ returning' = FALSE
            /\ cur' = NoClaim
    /\ UNCHANGED <<shutdown_handler, hb, continuous, registered, heartbeat, error,
                   nextClaim, nDeactivate, mainRest>>

\* get_job, line 314
HeartbeatStop ==
    /\ MainRuns /\ pc = "hb_stop"
    /\ hb' = [hb EXCEPT ![heartbeat] = StopHeartbeat(@)]
    /\ pc' = "hb_wait"
    /\ UNCHANGED <<shutdown_handler, continuous, error_count, registered, heartbeat,
                   cur, error, returning, nextClaim, sess, calls, nDeactivate,
                   mainRest>>

\* get_job, lines 316-321: wait_to_finish, whose exception is logged and
\* dropped, then self.heartbeat = None; the generator and the with statement
\* end (run_job.py:146-149, or the pending `return` of the body)
HeartbeatWait(outcome) ==
    /\ MainRuns /\ pc = "hb_wait"
    /\ outcome \in WaitToFinishOutcomes(hb[heartbeat])
    /\ sess' = [sess EXCEPT !.state = "ended",
                            !.fault = outcome # "ok" \/ hb[heartbeat].tpc = "raised"]
    /\ heartbeat' = NoClaim
    /\ cur' = NoClaim
    /\ returning' = FALSE
    /\ pc' = PcAfterWith(returning, continuous)
    /\ UNCHANGED <<shutdown_handler, hb, continuous, error_count, registered, error,
                   nextClaim, calls, nDeactivate, mainRest>>

\* __exit__ (jobs_manager.py:214-219) with __deactivate_worker (221-229)
ExitManager(ok) ==
    /\ MainRuns /\ pc = "exit"
    /\ hb' = IF heartbeat # NoClaim /\ hb[heartbeat].running
             THEN [hb EXCEPT ![heartbeat] = StopHeartbeat(@)]
             ELSE hb
    /\ nDeactivate' = nDeactivate + 1
    /\ pc' = IF ok THEN "done" ELSE "crashed"
    /\ sess' = NewSession
    /\ UNCHANGED <<shutdown_handler, continuous, error_count, registered, heartbeat,
                   cur, error, returning, nextClaim, calls, mainRest>>

\* a job poll is issued (get_job, line 260)
JobPoll == GetJobPollFails \/ GetJobNoJob \/ GetJobGranted

\* --------------------------------------------------------- specifications
Next ==
    \/ \E sig \in Signals : Interrupt(sig)
    \/ HandlerCheck
    \/ HandlerSetEvent
    \/ HandlerSetReason
    \/ HandlerSetMessage
    \/ \E c \in Claims : HeartbeatTick(c)
    \/ \E c \in Claims, status \in HeartbeatOutcomes : HeartbeatResponse(c, status)
    \/ \E c \in Claims : RenewerCheck(c)
    \/ \E c \in Claims : RenewerSetEvent(c)
    \/ \E c \in Claims : RenewerSetReason(c)
    \/ \E c \in Claims : RenewerSetMessage(c)
    \/ \E c \in Claims : RenewerSelfStop(c)
    \/ \E ok \in BOOLEAN : RegisterWorker(ok)
    \/ LoopCheckInterrupted
    \/ LoopCheckReason
    \/ ResetClearEvent
    \/ ResetClearReason
    \/ ResetClearMessage
    \/ GetJobUsageError
    \/ GetJobPollFails
    \/ GetJobNoJob
    \/ GetJobGranted
    \/ WorkReturns
    \/ WorkRaises
    \/ DispSignaled
    \/ \E ok \in BOOLEAN : DispUnsignaled(ok)
    \/ DispCheckReason
    \/ \E ok \in BOOLEAN : DispReturnInterrupted(ok)
    \/ HeartbeatStop
    \/ \E outcome \in {"ok", "TimeoutError", "ValueError"} : HeartbeatWait(outcome)
    \/ \E ok \in BOOLEAN : ExitManager(ok)

Spec == Init /\ [][Next]_vars

\* The coordinator alone, its calls made one after the other by one caller.
SeqMessages == {"", CancelMessage, InterruptMessage("SIGINT")}

SeqShutdown(r, m) ==
    /\ Len(seqCalls) < MaxCalls
    /\ shutdown_handler' = ShutdownCall(shutdown_handler, r, m)
    /\ seqCalls' = Append(seqCalls, [reason |-> r, message |-> m])
    /\ UNCHANGED <<handlerVars, hb, mainVars, seqResets, recording, ticks, waited,
                   iters>>

SeqReset ==
    /\ seqResets < MaxCalls
    /\ shutdown_handler' = ResetCall(shutdown_handler)
    /\ seqCalls' = <<>>
    /\ seqResets' = seqResets + 1
    /\ UNCHANGED <<handlerVars, hb, mainVars, recording, ticks, waited, iters>>

NextSeq ==
    \/ \E r \in Reasons, m \in SeqMessages : SeqShutdown(r, m)
    \/ SeqReset

SpecSeq == Init /\ [][NextSeq]_vars

\* One JobsSystemHeartbeat object alone: start() has been called, its thread
\* runs _loop, and the owner calls stop() and wait_to_finish() at any time.
\* The outcome of every heartbeat is recorded in `ticks`.
TheRenewer == 1
WaitOutcomes == {"ok", "TimeoutError", "ValueError"}

InitRenewer ==
    /\ Start
    /\ hb = [c \in {TheRenewer} |-> StartHeartbeat(NewHeartbeat)]
    /\ recording = {"ticks"}

\* the owner calls stop() (jobs_manager.py:179-180)
OwnerStop ==
    /\ hb' = [hb EXCEPT ![TheRenewer] = StopHeartbeat(@)]
    /\ UNCHANGED <<shutdown_handler, handlerVars, mainVars, scenVars>>

\* the owner calls wait_to_finish() (jobs_manager.py:182-189)
OwnerWait(outcome) ==
    /\ outcome \in WaitToFinishOutcomes(hb[TheRenewer])
    /\ waited' = outcome
    /\ UNCHANGED <<shutdown_handler, handlerVars, mainVars, hb, seqCalls,
                   seqResets, recording, ticks, iters>>

WaitCall == \E outcome \in WaitOutcomes : OwnerWait(outcome)

NextRenewer ==
    \/ HeartbeatTick(TheRenewer)
    \/ \E status \in HeartbeatOutcomes : HeartbeatResponse(TheRenewer, status)
    \/ RenewerCheck(TheRenewer)
    \/ RenewerSetEvent(TheRenewer)
    \/ RenewerSetReason(TheRenewer)
    \/ RenewerSetMessage(TheRenewer)
    \/ RenewerSelfStop(TheRenewer)
    \/ OwnerStop
    \/ \E outcome \in WaitOutcomes : OwnerWait(outcome)

SpecRenewer == InitRenewer /\ [][NextRenewer]_vars

\* The same object with no history kept, so that no bound stops its thread,
\* and with the scheduling the termination of the thread rests on: the sleep
\* of line 157 ends, every extension call returns (response or error), and a
\* thread inside shutdown() or stop() keeps running.
InitRenewerLive ==
    /\ Start
    /\ hb = [c \in {TheRenewer} |-> StartHeartbeat(NewHeartbeat)]
    /\ recording = {}

RenewerThreadStep ==
    \/ HeartbeatTick(TheRenewer)
    \/ \E status \in HeartbeatOutcomes : HeartbeatResponse(TheRenewer, status)
    \/ RenewerCheck(TheRenewer)
    \/ RenewerSetEvent(TheRenewer)
    \/ RenewerSetReason(TheRenewer)
    \/ RenewerSetMessage(TheRenewer)
    \/ RenewerSelfStop(TheRenewer)

SpecRenewerLive ==
    InitRenewerLive /\ [][NextRenewer]_vars /\ WF_vars(RenewerThreadStep)

\* The job loop over many iterations, in the runs where no host interrupt
\* arrives, every heartbeat is answered 'in progress' and every complete call
\* succeeds: polls fail or are answered, jobs return or raise. The streaks of
\* failing iterations and failing polls are recorded in `iters`.
LoopStatuses == {"in progress"}

InitLoop ==
    /\ Start
    /\ hb = [c \in LoopClaims |-> NewHeartbeat]
    /\ recording = {"iterations"}

NextLoop ==
    \/ \E c \in LoopClaims : HeartbeatTick(c)
    \/ \E c \in LoopClaims, status \in LoopStatuses : HeartbeatResponse(c, status)
    \/ \E ok \in BOOLEAN : RegisterWorker(ok)
    \/ LoopCheckInterrupted
    \/ GetJobPollFails
    \/ GetJobNoJob
    \/ GetJobGranted
    \/ WorkReturns
    \/ WorkRaises
    \/ DispUnsignaled(TRUE)
    \/ HeartbeatStop
    \/ \E outcome \in WaitOutcomes : HeartbeatWait(outcome)
    \/ \E ok \in BOOLEAN : ExitManager(ok)

SpecLoop == InitLoop /\ [][NextLoop]_vars

\* ----------------------------------------------------------------- claims
\* the session of the latest claim has chosen its disposition
Resolved == sess.state \in {"resolved", "ended"}

\* the operations of the calls issued for claim c, in order
OpsFor(c) == [i \in 1..Len(CallsFor(c)) |-> CallsFor(c)[i].op]

\* control has left the get_job call that was granted claim c
SessionOver(c) == c < nextClaim /\ c # cur

\* C1: when run_job raises for a granted claim and line 302 reads the handler
\* unsignaled, the session issues exactly one return call for the claim and
\* no complete call.
C1_RaisedWorkIsReturned ==
    (sess.work = "raised" /\ sess.seen = "unsignaled" /\ Resolved)
        => OpsFor(sess.claim) = <<"return">>

\* C2: once a complete or return call is issued for a claim, the claim's
\* renewer has been asked to stop and its thread has terminated.
C2_RenewerJoinedBeforeCall ==
    \A c \in Claims :
        CallsFor(c) # <<>> => hb[c].stop /\ ~ThreadAlive(hb[c])

\* C3: when the renewer's shutdown(JOB_CANCELLED) passed line 22 on an
\* unsignaled handler, no host interrupt was delivered, and line 302 then read
\* the handler signaled, the session issues no complete and no return call.
C3_CancelledSessionIssuesNoCall ==
    (sess.cancelTook /\ nSignals = 0 /\ sess.seen = "signaled" /\ Resolved)
        => CallsFor(sess.claim) = <<>>

\* C4: when the handler's shutdown(SYS_INTERRUPT, m) passed line 22 on an
\* unsignaled handler during run_job, the session issues exactly one call for
\* the claim, a return call that carries m.
C4_InterruptReturnsWithMessage ==
    (sess.sysint # "" /\ Resolved)
        => CallsFor(sess.claim) =
              <<[op |-> "return", claim |-> sess.claim, body |-> sess.sysint]>>

\* C5: over the whole run at most one complete or return call is issued for
\* any one claim.
C5_AtMostOneTerminalCall ==
    \A c \in Claims : Len(CallsFor(c)) <= 1

C5_Witness ==
    \E c \in Claims : Len(CallsFor(c)) = 1 /\ SessionOver(c) /\ ~ThreadAlive(hb[c])

\* C6: when run_job returns normally and line 302 reads the handler
\* unsignaled, the session issues exactly one call for the claim, a complete
\* call.
C6_ReturnedWorkIsCompleted ==
    (sess.work = "returned" /\ sess.seen = "unsignaled" /\ Resolved)
        => CallsFor(sess.claim) = <<JobCompleteCall(sess.claim)>>

C6_Witness ==
    /\ sess.work = "returned" /\ sess.seen = "unsignaled" /\ sess.state = "ended"
    /\ CallsFor(sess.claim) = <<JobCompleteCall(sess.claim)>>

\* C7: after a session that ended with a renewer fault (the loop raised on its
\* fifth consecutive failure, or the thread outlived the join) the job loop
\* issues no job poll.
C7_NoPollAfterRenewerFault == [][sess.fault => ~JobPoll]_vars

\* C8: once control has left the get_job call of a granted claim, the claim's
\* renewer has been asked to stop and its thread has terminated.
C8_RenewerEndsWithSession ==
    \A c \in Claims :
        SessionOver(c) => hb[c].stop /\ ~ThreadAlive(hb[c])

\* C9: after any sequence of shutdown() calls with no reset() between them the
\* handler is signaled and holds the reason and the message of the first call.
C9_FirstSignalWins ==
    seqCalls # <<>> =>
        shutdown_handler = [event |-> TRUE, reason |-> seqCalls[1].reason,
                            message |-> seqCalls[1].message]

C9_Witness ==
    /\ Len(seqCalls) >= 2
    /\ seqCalls[2].reason # seqCalls[1].reason
    /\ seqCalls[2].message # seqCalls[1].message

\* C10: under every interleaving of the handler's and the renewer's
\* shutdown(), a stored reason changes only by being cleared in reset().
C10_StoredReasonIsStable ==
    [][shutdown_handler.reason # NoReason =>
          shutdown_handler.reason' \in {shutdown_handler.reason, NoReason}]_vars

\* the number of "error" outcomes at the end of a history of heartbeats
RECURSIVE TrailingErrors(_)
TrailingErrors(h) ==
    IF h = <<>> \/ h[Len(h)] # "error" THEN 0
    ELSE 1 + TrailingErrors(SubSeq(h, 1, Len(h) - 1))

\* C11: for every sequence of heartbeat outcomes the count of a live loop is
\* the number of failures since the last heartbeat that did not raise (0
\* right after one), and the loop has ended with the error exactly when the
\* last five heartbeats all failed.
C11_CountsConsecutiveFailures ==
    /\ ThreadAlive(hb[TheRenewer]) =>
          /\ hb[TheRenewer].ec = TrailingErrors(ticks)
          /\ hb[TheRenewer].ec < 5
    /\ hb[TheRenewer].tpc = "raised" <=> TrailingErrors(ticks) = 5
    /\ TrailingErrors(ticks) <= 5

C11_Witness ==
    /\ hb[TheRenewer].tpc = "raised"
    /\ Len(ticks) = 6
    /\ ticks[1] # "error"

\* C12: once a heartbeat has been answered 'cancelled' and the renewer's
\* shutdown() has passed line 22 on an unsignaled handler, the renewer posts
\* no further extension, no complete or return call is issued, and when that
\* shutdown() returns the handler's reason is JOB_CANCELLED.
C12_CancelledTickEndsTheLease ==
    [][sess.cancelTook =>
          /\ hb'[sess.claim].tpc # "post"
          /\ calls' = calls
          /\ RenewerSetMessage(sess.claim) =>
                shutdown_handler'.reason = "JOB_CANCELLED"]_vars

\* C13: when the loop has ended by raising on its fifth consecutive failure
\* and stop() has been called, wait_to_finish() does not return normally: it
\* raises the loop's error.
C13_WaitRaisesLoopError ==
    [][(hb[TheRenewer].tpc = "raised" /\ hb[TheRenewer].stop /\ WaitCall)
          => waited' \notin {"ok", "none"}]_vars

\* C19: wait_to_finish() on an object whose stop() has not been called raises
\* the ValueError at once, whatever the thread is doing, and changes nothing
\* of the object or its thread.
C19_WaitBeforeStopIsUsageError ==
    [][(~hb[TheRenewer].stop /\ WaitCall)
          => (waited' = "ValueError" /\ hb' = hb)]_vars

C19_Witness ==
    /\ waited = "ValueError"
    /\ ~hb[TheRenewer].stop
    /\ hb[TheRenewer].tpc = "post"
    /\ ticks # <<>>

\* C14: in continuous mode, once five polls in a row have failed the job loop
\* issues no further poll.
C14_FivePollFailuresEndTheLoop ==
    [][(continuous /\ iters.pollFailing >= 5) => ~JobPoll]_vars

\* C15: in continuous mode, once five iterations in a row have failed, by a
\* failing poll or by a claimed job whose work raised, the job loop issues no
\* further poll.
C15_FiveFailingIterationsEndTheLoop ==
    [][(continuous /\ iters.failing >= 5) => ~JobPoll]_vars

\* C16: a worker that was registered issues at most one deactivate call; it
\* issues it only when the job loop has been left, after which the main
\* thread has ended and polls no more; and every run that ends after a
\* registration has issued it, whichever way the loop was left.
C16_DeregisteredOnEveryExit ==
    /\ nDeactivate <= 1
    /\ nDeactivate = 1 => registered /\ pc \in {"done", "crashed"}
    /\ (registered /\ pc \in {"done", "crashed"}) => nDeactivate = 1

C16_Witness ==
    /\ pc = "done" /\ nDeactivate = 1
    /\ continuous /\ error_count = 5

\* C17: a get_job call made while a heartbeat object is still attached ends
\* in the usage error: no poll is sent, and the attached object, its thread
\* and the calls issued stay as they are.
C17_SecondSessionIsUsageError ==
    [][(pc = "get_job" /\ heartbeat # NoClaim /\ pc' # pc) =>
          /\ GetJobUsageError
          /\ ~JobPoll
          /\ UNCHANGED <<heartbeat, hb, calls, nextClaim>>]_vars

C17_Witness ==
    /\ heartbeat # NoClaim /\ pc = "loop_top" /\ error_count = 2
    /\ ThreadAlive(hb[heartbeat]) /\ ~hb[heartbeat].stop

\* C18: a poll answered 204 starts no renewer and issues no complete or
\* return call; after it the loop of a non-continuous worker polls no more,
\* and the loop of a continuous worker is left only on a signaled handler
\* (otherwise it goes on to the next poll).
C18_NoJobStartsNothing ==
    [][/\ GetJobNoJob => (hb' = hb /\ heartbeat' = NoClaim /\ calls' = calls)
       /\ (sess.state = "nojob" /\ ~continuous) => ~JobPoll
       /\ (sess.state = "nojob" /\ continuous /\ pc # "exit" /\ pc' = "exit")
             => Interrupted(shutdown_handler)]_vars

C18_Witness ==
    /\ sess.state = "nojob" /\ continuous /\ pc = "get_job"
    /\ \A c \in Claims : hb[c].tpc = "unborn"

\* C20: a reset() made in any state of the handler leaves it as __init__
\* made it, and the first shutdown() after it takes effect with the reason
\* and message it was given.
C20_ResetRestoresInitialState ==
    [][/\ SeqReset => shutdown_handler' = NewShutdownHandler
       /\ \A r \in Reasons, m \in SeqMessages :
             (seqCalls = <<>> /\ SeqShutdown(r, m)) =>
                 shutdown_handler' = [event |-> TRUE, reason |-> r, message |-> m]]_vars

C20_Witness ==
    /\ seqResets > 0
    /\ Len(seqCalls) = 1
    /\ shutdown_handler = [event |-> TRUE, reason |-> "SYS_INTERRUPT",
                           message |-> InterruptMessage("SIGINT")]

\* the interrupt handler has been called and has returned from shutdown()
HandlerCalled == nSignals > 0 /\ (hpc = "idle" \/ nSignals > 1)

\* C21: once the interrupt handler has called shutdown(SYS_INTERRUPT), the
\* shutdown check at the top of the job loop (run_job.py:93-98) never lets the
\* loop go on to another get_job: no poll follows the session that was open
\* when the interrupt arrived, also when the handler already held
\* JOB_CANCELLED and the loop was about to reset it.
C21_InterruptIsNeverLost ==
    [][(HandlerCalled /\ pc \in {"loop_top", "loop_reason", "reset_event",
                                  "reset_reason", "reset_message"})
          => pc' # "get_job"]_vars

\* C22: after stop() the thread posts no new extension call (one may be in
\* flight), it ends when its next sleep ends, given that the extension call
\* in flight returns, and wait_to_finish() on the ended thread returns
\* normally.
C22_StoppedRenewerTerminates ==
    /\ hb[TheRenewer].stop ~> ~ThreadAlive(hb[TheRenewer])
    /\ [][(hb[TheRenewer].stop /\ hb[TheRenewer].tpc # "post")
            => hb'[TheRenewer].tpc # "post"]_vars
    /\ []((hb[TheRenewer].stop /\ ~ThreadAlive(hb[TheRenewer]))
            => WaitToFinishOutcomes(hb[TheRenewer]) = {"ok"})

C22_Witness ==
    /\ hb[TheRenewer].stop /\ hb[TheRenewer].tpc = "returned"
    /\ waited = "ok"

\* C23: the job loop of a non-continuous worker passes its top once and
\* reaches get_job only from there, so it issues at most one poll; whatever
\* the poll and the job did, the loop is then left (the main thread goes on
\* to __exit__).
C23_OnePollWhenNotContinuous ==
    [][~continuous =>
          /\ pc' = "loop_top" => pc \in {"enter", "loop_top"}
          /\ pc' = "get_job" => pc \in {"loop_top", "get_job"}
          /\ JobPoll => nextClaim = 1 /\ calls = <<>>]_vars

C23_Witness ==
    /\ ~continuous /\ pc = "done"
    /\ sess = NewSession /\ nextClaim = 2 /\ error_count = 1

\* the claims whose renewer thread is alive
AliveRenewers == {c \in DOMAIN hb : ThreadAlive(hb[c])}

\* C24: in every state at most one renewer thread is alive, and a thread that
\* is alive belongs to the claim of the get_job call that is under way.
C24_OneRenewerWhileLeaseHeld ==
    /\ Cardinality(AliveRenewers) <= 1
    /\ \A c \in AliveRenewers : c = cur

\* C26: in every state in which the main thread can take its next step (the
\* interrupt handler is not running), a set event comes with a stored reason:
\* lines 93-94 of the job loop and 302-303 of get_job never read
\* `interrupted` True and then reason None.
C26_SignaledImpliesReason ==
    (MainRuns /\ Interrupted(shutdown_handler))
        => shutdown_handler.reason # NoReason

\* a step that clears the event, the reason or the message of the handler
ClearsHandler ==
    \/ shutdown_handler.event /\ ~shutdown_handler'.event
    \/ shutdown_handler.reason # NoReason /\ shutdown_handler'.reason = NoReason
    \/ shutdown_handler.message # "" /\ shutdown_handler'.message = ""

\* C25: only the job loop inside reset() clears anything of the handler (the
\* renewer threads and the interrupt handler never do), and reset() is
\* entered (its first statement, line 34, runs) only by a continuous worker
\* on a handler that is signaled with reason JOB_CANCELLED, never on one
\* that holds SYS_INTERRUPT.
C25_ResetOnlyAfterCancellation ==
    [][/\ ClearsHandler =>
             (ResetClearEvent \/ ResetClearReason \/ ResetClearMessage)
       /\ ResetClearEvent =>
             /\ continuous
             /\ Interrupted(shutdown_handler)
             /\ shutdown_handler.reason = "JOB_CANCELLED"]_vars

C25_Witness ==
    /\ pc = "get_job" /\ continuous
    /\ sess.cancelTook /\ sess.state = "ended"
    /\ hb[sess.claim].tpc = "returned"
    /\ shutdown_handler = NewShutdownHandler

====
